---- MODULE Spec2Model ----
(***************************************************************************)
(* Model of the iron-veil anonymising proxy: the PII scanner               *)
(* (src/src/scanner.rs), the masking configuration (src/src/config.rs),    *)
(* the Anonymizer packet interceptor (src/src/interceptor.rs), the accept  *)
(* loop and connection supervisor (src/src/main.rs) and the shared         *)
(* application state (src/src/state.rs).                                   *)
(*                                                                         *)
(* Byte strings are tuples of integers 0..255.  An absent cell             *)
(* (Option::None, the wire protocol's length -1) is the tuple <<-1>>.      *)
(* Column indexes are 0-based as in the source; cell i of a row is         *)
(* values[i + 1].                                                          *)
(***************************************************************************)
EXTENDS Integers, Sequences, FiniteSets, TLC

(***************************************************************************)
(* Bounds of the model.                                                    *)
(***************************************************************************)
MaxFields == 2

MaxCells == 2

\* frames read from one socket of one connection
MaxFrames == 2

\* consecutive health checks with the same outcome
MaxStreak == 3

\* calls of add_log; the buffer is full after 100 of them
MaxAdds == 102

(***************************************************************************)
(* Option values.                                                          *)
(***************************************************************************)
None == <<-1>>

NoTable == "<None>"

NoStrategy == "<None>"

NoPii == "<None>"

(***************************************************************************)
(* std::str::from_utf8: the code points of a byte string, or <<-1>> when   *)
(* the bytes are not well-formed UTF-8 (no overlong forms, no surrogates,  *)
(* nothing above U+10FFFF).                                                *)
(***************************************************************************)
IsCont(b) == b >= 128 /\ b <= 191

Utf8Len(b0) ==
    IF b0 < 128 THEN 1
    ELSE IF b0 >= 194 /\ b0 <= 223 THEN 2
    ELSE IF b0 >= 224 /\ b0 <= 239 THEN 3
    ELSE IF b0 >= 240 /\ b0 <= 244 THEN 4
    ELSE 0

Utf8SecondOk(b0, b1) ==
    IF b0 = 224 THEN b1 >= 160 /\ b1 <= 191
    ELSE IF b0 = 237 THEN b1 >= 128 /\ b1 <= 159
    ELSE IF b0 = 240 THEN b1 >= 144 /\ b1 <= 191
    ELSE IF b0 = 244 THEN b1 >= 128 /\ b1 <= 143
    ELSE IsCont(b1)

Utf8Char(val, p, n) ==
    IF n = 1 THEN val[p]
    ELSE IF n = 2 THEN (val[p] - 192) * 64 + (val[p + 1] - 128)
    ELSE IF n = 3 THEN (val[p] - 224) * 4096 + (val[p + 1] - 128) * 64
                       + (val[p + 2] - 128)
    ELSE (val[p] - 240) * 262144 + (val[p + 1] - 128) * 4096
         + (val[p + 2] - 128) * 64 + (val[p + 3] - 128)

RECURSIVE Utf8From(_, _, _)
Utf8From(val, p, acc) ==
    IF p > Len(val) THEN acc
    ELSE LET n == Utf8Len(val[p])
         IN  IF n = 0 \/ p + n - 1 > Len(val) THEN None
             ELSE IF n >= 2 /\ ~Utf8SecondOk(val[p], val[p + 1]) THEN None
             ELSE IF n >= 3 /\ ~IsCont(val[p + 2]) THEN None
             ELSE IF n = 4 /\ ~IsCont(val[p + 3]) THEN None
             ELSE Utf8From(val, p + n, Append(acc, Utf8Char(val, p, n)))

from_utf8(val) == Utf8From(val, 1, <<>>)

(***************************************************************************)
(* Character classes of the two regular expressions.  The regex crate is   *)
(* Unicode-aware by default: under (?i) the class [a-z] also contains      *)
(* U+017F and U+212A (simple case folding), \s is the White_Space          *)
(* property and \d is the general category Nd.  IsDigitNd lists the ASCII  *)
(* digits and the Nd blocks below U+0980 and U+FF10..U+FF19; the cells of  *)
(* CellBytes contain no other code point above U+007F.                     *)
(***************************************************************************)
IsAsciiDigit(c) == c >= 48 /\ c <= 57

IsLetterCI(c) ==
    \/ c >= 97 /\ c <= 122
    \/ c >= 65 /\ c <= 90
    \/ c = 383
    \/ c = 8490

IsDigitNd(c) ==
    \/ IsAsciiDigit(c)
    \/ c >= 1632 /\ c <= 1641
    \/ c >= 1776 /\ c <= 1785
    \/ c >= 1984 /\ c <= 1993
    \/ c >= 2406 /\ c <= 2415
    \/ c >= 65296 /\ c <= 65305

IsWhiteSpace(c) ==
    \/ c >= 9 /\ c <= 13
    \/ c \in {32, 133, 160, 5760, 8232, 8233, 8239, 8287, 12288}
    \/ c >= 8192 /\ c <= 8202

\* [a-z0-9._%+-] under (?i)
IsEmailLocal(c) == IsLetterCI(c) \/ IsAsciiDigit(c) \/ c \in {46, 95, 37, 43, 45}

\* [a-z0-9.-] under (?i)
IsEmailDomain(c) == IsLetterCI(c) \/ IsAsciiDigit(c) \/ c \in {46, 45}

\* (?i)^[a-z0-9._%+-]+@[a-z0-9.-]+\.[a-z]{2,}$
email_regex(text) ==
    \E at \in 1..Len(text) : \E dot \in 1..Len(text) :
        /\ text[at] = 64
        /\ text[dot] = 46
        /\ at >= 2
        /\ dot >= at + 2
        /\ Len(text) >= dot + 2
        /\ \A k \in 1..(at - 1) : IsEmailLocal(text[k])
        /\ \A k \in (at + 1)..(dot - 1) : IsEmailDomain(text[k])
        /\ \A k \in (dot + 1)..Len(text) : IsLetterCI(text[k])

Digits4(text, p) ==
    /\ p + 3 <= Len(text)
    /\ \A k \in p..(p + 3) : IsDigitNd(text[k])

\* ^(?:\d{4}[-\s]?){3}\d{4}$ from position p with g separated groups left
RECURSIVE CcFrom(_, _, _)
CcFrom(text, p, g) ==
    /\ Digits4(text, p)
    /\ IF g = 0 THEN p + 3 = Len(text)
       ELSE \/ CcFrom(text, p + 4, g - 1)
            \/ /\ p + 4 <= Len(text)
               /\ (text[p + 4] = 45 \/ IsWhiteSpace(text[p + 4]))
               /\ CcFrom(text, p + 5, g - 1)

cc_regex(text) == CcFrom(text, 1, 3)

\* PiiScanner::scan: email first, then credit card
scan(text) ==
    IF email_regex(text) THEN "Email"
    ELSE IF cc_regex(text) THEN "CreditCard"
    ELSE NoPii

(***************************************************************************)
(* Configuration (config.rs).  A MaskingRule is a record                   *)
(* [table, column, strategy]; AppConfig.rules is a sequence of rules.      *)
(***************************************************************************)
MaskingRule(table, column, strategy) ==
    [table |-> table, column |-> column, strategy |-> strategy]

\* the configuration of test_explicit_rule_overrides_heuristic
RulesOverride == << MaskingRule(NoTable, "email_col", "address") >>

\* a table-scoped rule ahead of a global rule for the same column
RulesScoped ==
    << MaskingRule("users", "email_col", "email"),
       MaskingRule(NoTable, "email_col", "credit_card"),
       MaskingRule(NoTable, "id", "mask") >>

\* two global rules for one column, and a strategy outside the closed set
RulesTwice ==
    << MaskingRule(NoTable, "id", "phone"),
       MaskingRule(NoTable, "id", "redact"),
       MaskingRule("users", "email_col", "phone") >>

\* a rule whose strategy is none of the names on_data_row matches
RulesUnknown == << MaskingRule(NoTable, "email_col", "hash") >>

\* the configuration of test_heuristic_detection
RulesEmpty == << >>

Configs == {RulesEmpty, RulesOverride, RulesScoped, RulesTwice, RulesUnknown}

(***************************************************************************)
(* AppConfig as AppState holds it: the rules and the optional health_check *)
(* section, of which update_health_status reads the two thresholds.        *)
(***************************************************************************)
NoHealthCheck ==
    [present |-> FALSE, unhealthy_threshold |-> 0, healthy_threshold |-> 0]

HealthCheck(unhealthy, healthy) ==
    [present |-> TRUE, unhealthy_threshold |-> unhealthy,
     healthy_threshold |-> healthy]

AppConfig(rules, health_check) ==
    [rules |-> rules, health_check |-> health_check]

(***************************************************************************)
(* Messages (protocol::postgres).  A RowDescription is its sequence of     *)
(* FieldDescriptions, of which only the name is read; a DataRow is its     *)
(* sequence of values, each None or a byte string.                         *)
(***************************************************************************)
FieldDescription(name) == [name |-> name]

FieldNames == {"email_col", "id"}

RECURSIVE SeqsUpTo(_, _)
SeqsUpTo(S, n) ==
    IF n = 0 THEN {<<>>}
    ELSE LET shorter == SeqsUpTo(S, n - 1)
         IN  shorter \cup {Append(q, x) : q \in shorter, x \in S}

RowDescriptions == SeqsUpTo({FieldDescription(n) : n \in FieldNames}, MaxFields)

\* "test@example.com"
BytesEmail == <<116, 101, 115, 116, 64, 101, 120, 97, 109, 112, 108, 101, 46, 99, 111, 109>>

\* "1234-5678-9012-3456"
BytesCard == <<49, 50, 51, 52, 45, 53, 54, 55, 56, 45, 57, 48, 49, 50, 45, 51, 52, 53, 54>>

\* "some data"
BytesPlain == <<115, 111, 109, 101, 32, 100, 97, 116, 97>>

\* "t@" 0xFF ".co": shaped like an email address but not UTF-8
BytesNotUtf8 == <<116, 64, 255, 46, 99, 111>>

CellBytes == {BytesEmail, BytesCard, BytesPlain, BytesNotUtf8}

DataRows == SeqsUpTo(CellBytes \cup {None}, MaxCells)

\* the narrower catalogue of the two-connection specification
PairRows == SeqsUpTo({BytesEmail, BytesPlain}, MaxCells)

\* one Anonymizer per proxied connection
Anonymizers == {"conn1", "conn2"}

(***************************************************************************)
(* State.                                                                  *)
(*   config      rules of the Arc<AppConfig> each Anonymizer holds         *)
(*   target_cols each Anonymizer's Vec<(usize, String)>                    *)
(*   desc        the RowDescription last passed to on_row_description      *)
(*   last        the most recent call: its receiver, its argument, the    *)
(*               receiver's target_cols when it began, and its result      *)
(*   reloaded    whether AppState's configuration was replaced since the   *)
(*               connection's last RowDescription                          *)
(*   app_config  the AppConfig behind AppState::config                     *)
(***************************************************************************)
VARIABLES config, target_cols, desc, last, reloaded, app_config

ivars == <<config, target_cols, desc, last, reloaded>>

(***************************************************************************)
(* State of the accept loop and the connection supervisor (main.rs).       *)
(*   main_pc     "accepting" while main is in its loop, "exited" after     *)
(*               accept() failed and main returned the error               *)
(*   conn        per client connection: state, which copy finished first,  *)
(*               and per direction the frames read from the source socket  *)
(*               (rd), held in the copy buffer (buf) and written to the    *)
(*               sink socket (wr)                                          *)
(*   active_connections  AppState::active_connections                      *)
(***************************************************************************)
VARIABLES main_pc, conn, active_connections

svars == <<main_pc, conn, active_connections>>

(***************************************************************************)
(* State of the upstream health record (state.rs).                         *)
(*   health_status    AppState::health_status without its clock reading    *)
(*                    and latency                                          *)
(*   upstream_healthy AppState::upstream_healthy                           *)
(*   checker          per caller of update_health_status: its position,    *)
(*                    arguments, the thresholds it read and the healthy    *)
(*                    value it found                                       *)
(*   hlast            the call of update_health_status that returned last  *)
(***************************************************************************)
VARIABLES health_status, upstream_healthy, checker, hlast

hvars == <<health_status, upstream_healthy, checker, hlast>>

(***************************************************************************)
(* State of the log buffer (state.rs).                                     *)
(*   logs    AppState::logs, front first                                   *)
(*   logger  per caller of add_log: its position                           *)
(*   llast   the call of add_log that returned last: the buffer it found   *)
(*           under the write guard, the entry it was given, and the number *)
(*           of calls that have returned                                   *)
(***************************************************************************)
VARIABLES logs, logger, llast

lvars == <<logs, logger, llast>>

vars == <<config, target_cols, desc, last, reloaded, app_config,
          main_pc, conn, active_connections,
          health_status, upstream_healthy, checker, hlast,
          logs, logger, llast>>

(***************************************************************************)
(* Anonymizer::on_row_description                                          *)
(***************************************************************************)
\* table matching that accepts only a rule without a table
TableMatchGlobalOnly(rule) == rule.table = NoTable

\* the closure of is_none_or returns true: a rule that names a table matches
table_match(rule) == IF rule.table = NoTable THEN TRUE ELSE TRUE

\* the inner loop without its break: every matching rule is pushed
RECURSIVE PushFirstMatchNoBreak(_, _, _, _, _)
PushFirstMatchNoBreak(tc, i, field, rules, r) ==
    IF r > Len(rules) THEN tc
    ELSE IF table_match(rules[r]) /\ rules[r].column = field.name
         THEN PushFirstMatchNoBreak(Append(tc, <<i, rules[r].strategy>>),
                                    i, field, rules, r + 1)
         ELSE PushFirstMatchNoBreak(tc, i, field, rules, r + 1)

\* inner loop over the rules for field i, from rule r on, with its break
RECURSIVE PushFirstMatch(_, _, _, _, _)
PushFirstMatch(tc, i, field, rules, r) ==
    IF r > Len(rules) THEN tc
    ELSE IF table_match(rules[r]) /\ rules[r].column = field.name
         THEN Append(tc, <<i, rules[r].strategy>>)
         ELSE PushFirstMatch(tc, i, field, rules, r + 1)

\* outer loop over msg.fields.iter().enumerate(), from index i on
RECURSIVE ResolveFields(_, _, _, _)
ResolveFields(tc, fields, rules, i) ==
    IF i >= Len(fields) THEN tc
    ELSE ResolveFields(PushFirstMatch(tc, i, fields[i + 1], rules, 1),
                       fields, rules, i + 1)

\* the body without self.target_cols.clear()
RebuildNoClear(tc, fields, rules) == ResolveFields(tc, fields, rules, 0)

\* the body: clear, then the loops
rebuild_target_cols(tc, fields, rules) == ResolveFields(<<>>, fields, rules, 0)

on_row_description(self, msg) ==
    /\ target_cols' = [target_cols EXCEPT ![self] =
                          rebuild_target_cols(target_cols[self], msg, config[self])]
    /\ desc' = [desc EXCEPT ![self] = [bound |-> TRUE, fields |-> msg]]
    /\ last' = [op |-> "on_row_description", self |-> self,
                before |-> target_cols[self], fields |-> msg,
                values |-> <<>>, out |-> <<>>, strategy |-> <<>>,
                result |-> "Ok"]
    /\ reloaded' = [reloaded EXCEPT ![self] = FALSE]
    /\ UNCHANGED <<config, app_config, svars, hvars, lvars>>

(***************************************************************************)
(* Anonymizer::on_data_row                                                 *)
(***************************************************************************)
\* target_cols.iter().find(|(col_idx, _)| *col_idx == i), from entry p on
RECURSIVE find(_, _, _)
find(tc, i, p) ==
    IF p > Len(tc) THEN NoStrategy
    ELSE IF tc[p][1] = i THEN tc[p][2]
    ELSE find(tc, i, p + 1)

\* the heuristic scan with bytes that are not UTF-8 masked as a constant
HeuristicNotUtf8Masked(val) ==
    LET s == from_utf8(val)
    IN  IF s # None
        THEN CASE scan(s) = "Email" -> "email"
               [] scan(s) = "CreditCard" -> "credit_card"
               [] OTHER -> NoStrategy
        ELSE "mask"

\* the heuristic scan with the two categories mapped to each other's strategy
HeuristicSwapped(val) ==
    LET s == from_utf8(val)
    IN  IF s # None
        THEN CASE scan(s) = "Email" -> "credit_card"
               [] scan(s) = "CreditCard" -> "email"
               [] OTHER -> NoStrategy
        ELSE NoStrategy

\* step 2: the heuristic scan of a cell that has no explicit rule
heuristic_strategy(val) ==
    LET s == from_utf8(val)
    IN  IF s # None
        THEN CASE scan(s) = "Email" -> "email"
               [] scan(s) = "CreditCard" -> "credit_card"
               [] OTHER -> NoStrategy
        ELSE NoStrategy

\* heuristic_strategy tabulated once over the cells of the model
HeuristicOf == [val \in CellBytes |-> heuristic_strategy(val)]

\* the strategy of cell i with the heuristic consulted before the rule
ChooseStrategyHeuristicFirst(tc, i, val) ==
    IF HeuristicOf[val] # NoStrategy THEN HeuristicOf[val]
    ELSE find(tc, i, 1)

\* the strategy of cell i: the explicit rule, else the heuristic
choose_strategy(tc, i, val) ==
    LET explicit_strategy == find(tc, i, 1)
    IN  IF explicit_strategy # NoStrategy THEN explicit_strategy
        ELSE HeuristicOf[val]

(***************************************************************************)
(* The seed and the generated value.  DefaultHasher::new() has the fixed   *)
(* keys (0, 0); hashing a byte slice feeds its length and then its bytes.  *)
(* The 64-bit digest, the ChaCha8 stream seeded with it and the string a   *)
(* faker of the `fake` crate draws from that stream are functions of the   *)
(* hasher's input alone, so the model names each by that input: a          *)
(* generated string is <<-k>> \o input, k the faker, which is no byte      *)
(* string.  "MASKED" is the literal bytes.                                 *)
(***************************************************************************)
DefaultHasher_new == <<0, 0>>

hash(val, hasher) == hasher \o <<Len(val)>> \o val

seed_of(val) == hash(val, DefaultHasher_new)

SafeEmail == 1

PhoneNumber == 2

CityName == 3

CreditCardNumber == 4

fake_with_rng(faker, rng) == <<0 - faker>> \o rng

\* "MASKED"
BytesMasked == <<77, 65, 83, 75, 69, 68>>

\* the match with "mask" as its own arm and nothing for other names
FakeValMaskOnly(strat, rng) ==
    CASE strat = "email" -> fake_with_rng(SafeEmail, rng)
      [] strat = "phone" -> fake_with_rng(PhoneNumber, rng)
      [] strat = "address" -> fake_with_rng(CityName, rng)
      [] strat = "credit_card" -> fake_with_rng(CreditCardNumber, rng)
      [] strat = "mask" -> BytesMasked
      [] OTHER -> <<>>

fake_val(strat, rng) ==
    CASE strat = "email" -> fake_with_rng(SafeEmail, rng)
      [] strat = "phone" -> fake_with_rng(PhoneNumber, rng)
      [] strat = "address" -> fake_with_rng(CityName, rng)
      [] strat = "credit_card" -> fake_with_rng(CreditCardNumber, rng)
      [] OTHER -> BytesMasked

\* the loop body with the rule looked up before the test for None
RewriteCellRuleFirst(tc, i, val_opt) ==
    IF find(tc, i, 1) # NoStrategy
    THEN [value |-> fake_val(find(tc, i, 1), seed_of(<<>>)),
          strategy |-> find(tc, i, 1)]
    ELSE IF val_opt # None /\ HeuristicOf[val_opt] # NoStrategy
    THEN [value |-> fake_val(HeuristicOf[val_opt], seed_of(val_opt)),
          strategy |-> HeuristicOf[val_opt]]
    ELSE [value |-> val_opt, strategy |-> NoStrategy]

\* the loop body with the column index mixed into the seed
RewriteCellSeedIndex(tc, i, val_opt) ==
    IF val_opt # None
    THEN LET strat == choose_strategy(tc, i, val_opt)
         IN  IF strat # NoStrategy
             THEN [value |-> fake_val(strat, seed_of(val_opt) \o <<i>>),
                   strategy |-> strat]
             ELSE [value |-> val_opt, strategy |-> NoStrategy]
    ELSE [value |-> val_opt, strategy |-> NoStrategy]

\* the loop body for cell i: the cell written back and the strategy chosen
rewrite_cell(tc, i, val_opt) ==
    IF val_opt # None
    THEN LET strat == choose_strategy(tc, i, val_opt)
         IN  IF strat # NoStrategy
             THEN [value |-> fake_val(strat, seed_of(val_opt)), strategy |-> strat]
             ELSE [value |-> val_opt, strategy |-> NoStrategy]
    ELSE [value |-> val_opt, strategy |-> NoStrategy]

\* the loop over the cells that are present only
RewriteValuesSkipNull(tc, values) ==
    LET present == SelectSeq(values, LAMBDA v : v # None)
    IN  [k \in 1..Len(present) |-> rewrite_cell(tc, k - 1, present[k])]

\* for (i, val_opt) in msg.values.iter_mut().enumerate()
rewrite_values(tc, values) ==
    [k \in 1..Len(values) |-> rewrite_cell(tc, k - 1, values[k])]

\* on_data_row refusing a row that no bound RowDescription describes
OnDataRowChecked(self, msg) ==
    LET cells == rewrite_values(target_cols[self], msg)
        ok == desc[self].bound /\ Len(desc[self].fields) = Len(msg)
    IN  /\ last' = [op |-> "on_data_row", self |-> self,
                    before |-> target_cols[self], fields |-> <<>>,
                    values |-> msg,
                    out |-> IF ok THEN [k \in 1..Len(cells) |-> cells[k].value]
                            ELSE <<>>,
                    strategy |-> [k \in 1..Len(cells) |-> cells[k].strategy],
                    result |-> IF ok THEN "Ok" ELSE "Err"]
        /\ UNCHANGED <<config, target_cols, desc, reloaded, app_config,
                       svars, hvars, lvars>>

on_data_row(self, msg) ==
    LET cells == rewrite_values(target_cols[self], msg)
    IN  /\ last' = [op |-> "on_data_row", self |-> self,
                    before |-> target_cols[self], fields |-> <<>>,
                    values |-> msg,
                    out |-> [k \in 1..Len(cells) |-> cells[k].value],
                    strategy |-> [k \in 1..Len(cells) |-> cells[k].strategy],
                    result |-> "Ok"]
        /\ UNCHANGED <<config, target_cols, desc, reloaded, app_config,
                       svars, hvars, lvars>>

(***************************************************************************)
(* AppState::reload_config.  AppConfig::load(path) yields Err or the       *)
(* configuration parsed from the file; `load` is that result.  A           *)
(* successful load replaces the whole configuration under the write lock.  *)
(* The Anonymizers hold their own Arc<AppConfig> and are not touched.      *)
(***************************************************************************)
LoadOk(cfg) == [ok |-> TRUE, config |-> cfg]

LoadErr == [ok |-> FALSE, config |-> AppConfig(<<>>, NoHealthCheck)]

\* the files that differ in their rules
RuleLoads == {LoadOk(AppConfig(r, NoHealthCheck)) : r \in Configs} \cup {LoadErr}

\* reload_config that also resolves every bound RowDescription again
ReloadConfigRebinding(load) ==
    /\ app_config' = IF load.ok THEN load.config ELSE app_config
    /\ reloaded' = IF load.ok
                   THEN [a \in Anonymizers |-> reloaded[a] \/ desc[a].bound]
                   ELSE reloaded
    /\ last' = [op |-> "reload_config", self |-> "conn1", before |-> <<>>,
                fields |-> <<>>, values |-> <<>>, out |-> <<>>,
                strategy |-> <<>>,
                result |-> IF load.ok THEN "Ok" ELSE "Err",
                load |-> load,
                rules_count |-> IF load.ok THEN Len(load.config.rules) ELSE -1]
    /\ target_cols' =
           IF load.ok
           THEN [a \in Anonymizers |->
                    IF desc[a].bound
                    THEN rebuild_target_cols(target_cols[a], desc[a].fields,
                                             load.config.rules)
                    ELSE target_cols[a]]
           ELSE target_cols
    /\ UNCHANGED <<config, desc, svars, hvars, lvars>>

\* a reload that assigns the rules and leaves the other sections in place
ReloadConfigRulesOnly(load) ==
    /\ app_config' = IF load.ok
                     THEN [app_config EXCEPT !.rules = load.config.rules]
                     ELSE app_config
    /\ reloaded' = IF load.ok
                   THEN [a \in Anonymizers |-> reloaded[a] \/ desc[a].bound]
                   ELSE reloaded
    /\ last' = [op |-> "reload_config", self |-> "conn1", before |-> <<>>,
                fields |-> <<>>, values |-> <<>>, out |-> <<>>,
                strategy |-> <<>>,
                result |-> IF load.ok THEN "Ok" ELSE "Err",
                load |-> load,
                rules_count |-> IF load.ok THEN Len(load.config.rules) ELSE -1]
    /\ UNCHANGED <<config, target_cols, desc, svars, hvars, lvars>>

\* AppConfig::load(path)?, rules_count, *config = new_config under the write
\* guard, Ok(rules_count)
reload_config(load) ==
    /\ app_config' = IF load.ok THEN load.config ELSE app_config
    /\ reloaded' = IF load.ok
                   THEN [a \in Anonymizers |-> reloaded[a] \/ desc[a].bound]
                   ELSE reloaded
    /\ last' = [op |-> "reload_config", self |-> "conn1", before |-> <<>>,
                fields |-> <<>>, values |-> <<>>, out |-> <<>>,
                strategy |-> <<>>,
                result |-> IF load.ok THEN "Ok" ELSE "Err",
                load |-> load,
                rules_count |-> IF load.ok THEN Len(load.config.rules) ELSE -1]
    /\ UNCHANGED <<config, target_cols, desc, svars, hvars, lvars>>

(***************************************************************************)
(* The accept loop and process_connection (main.rs).  What a socket        *)
(* delivers is modelled frame by frame: a frame is its tag, its declared   *)
(* length and, for a DataRow, its cells.  tokio::io::copy moves whatever   *)
(* it reads from one socket to the other without looking at it.            *)
(***************************************************************************)
Conns == {"client1", "client2"}

Dirs == {"c2u", "u2c"}

\* the frame limit of the specification's decoder, 2^30
MAX_FRAME == 1073741824

Frame(tag, length, values) == [tag |-> tag, length |-> length, values |-> values]

\* a simple query of 9 payload bytes
FrameQuery == Frame("Q", 13, <<>>)

\* a frame whose declared length is below 4
FrameShort == Frame("Q", 3, <<>>)

\* a DataRow with the one cell "test@example.com"
FrameDataRow == Frame("D", 26, <<BytesEmail>>)

\* a frame whose declared length is above MAX_FRAME
FrameHuge == Frame("D", MAX_FRAME + 1, <<>>)

\* what the source socket of a direction may deliver
StreamFrames(d) ==
    IF d = "c2u" THEN {FrameQuery, FrameShort} ELSE {FrameDataRow, FrameHuge}

\* the narrower catalogue of the two-client specification
AcceptFrames(d) == IF d = "c2u" THEN {FrameQuery} ELSE {FrameDataRow}

NoStreams == [d \in Dirs |-> <<>>]

NewConn == [state |-> "none", first |-> "none",
            rd |-> NoStreams, buf |-> NoStreams, wr |-> NoStreams]

InitSupervisor ==
    /\ main_pc = "accepting"
    /\ conn = [c \in Conns |-> NewConn]
    /\ active_connections = 0

\* listener.accept() returns a client and the task is spawned
accept(c) ==
    /\ main_pc = "accepting"
    /\ conn[c].state = "none"
    /\ conn' = [conn EXCEPT ![c].state = "spawned"]
    /\ UNCHANGED <<main_pc, active_connections, ivars, app_config, hvars, lvars>>

\* listener.accept() fails: `?` returns from main, the runtime is dropped
\* and with it every task still running
accept_error ==
    /\ main_pc = "accepting"
    /\ main_pc' = "exited"
    /\ conn' = [c \in Conns |->
                   IF conn[c].state \in {"spawned", "running"}
                   THEN [conn[c] EXCEPT !.state = "aborted"]
                   ELSE conn[c]]
    /\ UNCHANGED <<active_connections, ivars, app_config, hvars, lvars>>

\* TcpStream::connect to the upstream succeeds; both sockets are split
connect_ok(c) ==
    /\ conn[c].state = "spawned"
    /\ conn' = [conn EXCEPT ![c].state = "running"]
    /\ UNCHANGED <<main_pc, active_connections, ivars, app_config, hvars, lvars>>

\* the connect error unwinding into the accept loop
ConnectErrFatal(c) ==
    /\ conn[c].state = "spawned"
    /\ conn' = [conn EXCEPT ![c].state = "failed"]
    /\ main_pc' = "exited"
    /\ UNCHANGED <<active_connections, ivars, app_config, hvars, lvars>>

\* TcpStream::connect fails: process_connection returns Err, the spawned
\* task logs it and ends
connect_err(c) ==
    /\ conn[c].state = "spawned"
    /\ conn' = [conn EXCEPT ![c].state = "failed"]
    /\ UNCHANGED <<main_pc, active_connections, ivars, app_config, hvars, lvars>>

\* a copy that outlives the select!: it stops only when it finishes itself
CopyActiveDetached(c, d) ==
    \/ conn[c].state = "running"
    \/ conn[c].state = "returned" /\ conn[c].first # d

\* the copy of direction d is polled only inside the select!
copy_active(c, d) == conn[c].state = "running"

\* tokio::io::copy reads from the source socket into its buffer
copy_read(c, d, frame) ==
    /\ copy_active(c, d)
    /\ Len(conn[c].rd[d]) < MaxFrames
    /\ conn' = [conn EXCEPT ![c].rd[d] = Append(@, frame),
                            ![c].buf[d] = Append(@, frame)]
    /\ UNCHANGED <<main_pc, active_connections, ivars, app_config, hvars, lvars>>

\* a copy that writes the newest buffered frame first
CopyWriteNewestFirst(c, d) ==
    /\ copy_active(c, d)
    /\ conn[c].buf[d] # <<>>
    /\ LET n == Len(conn[c].buf[d])
       IN  conn' = [conn EXCEPT ![c].wr[d] = Append(@, conn[c].buf[d][n]),
                                ![c].buf[d] = SubSeq(@, 1, n - 1)]
    /\ UNCHANGED <<main_pc, active_connections, ivars, app_config, hvars, lvars>>

\* tokio::io::copy writes the front of its buffer to the sink socket
copy_write(c, d) ==
    /\ copy_active(c, d)
    /\ conn[c].buf[d] # <<>>
    /\ conn' = [conn EXCEPT ![c].wr[d] = Append(@, Head(conn[c].buf[d])),
                            ![c].buf[d] = Tail(@)]
    /\ UNCHANGED <<main_pc, active_connections, ivars, app_config, hvars, lvars>>

\* the copy of direction d completes: Ok at end-of-stream once its buffer is
\* written out, Err on a failed read or write at any point.  select! takes
\* that branch, logs, drops the other copy and process_connection returns.
copy_finish(c, d, outcome) ==
    /\ copy_active(c, d)
    /\ outcome = "eof" => conn[c].buf[d] = <<>>
    /\ conn' = [conn EXCEPT ![c].state = "returned", ![c].first = d]
    /\ UNCHANGED <<main_pc, active_connections, ivars, app_config, hvars, lvars>>


(***************************************************************************)
(* AppState::update_health_status.  The write guard on health_status is    *)
(* taken first and dropped when the function returns; under it the         *)
(* function updates the counters, reads the thresholds under the config    *)
(* read lock, writes status.healthy and stores the atomic flag.  Each of   *)
(* these is a step, so that reload_config and readers of the flag          *)
(* interleave with a call in progress.                                     *)
(***************************************************************************)
Checkers == {"check1", "check2"}

NoError == "<None>"

\* files that differ in their rules and in their health_check section, and
\* a file that does not load
HealthLoads ==
    {LoadOk(AppConfig(RulesEmpty, NoHealthCheck)),
     LoadOk(AppConfig(RulesScoped, HealthCheck(2, 2))),
     LoadOk(AppConfig(RulesTwice, HealthCheck(0, 1))),
     LoadErr}

\* HealthStatus::default()
HealthStatus_default ==
    [healthy |-> TRUE, last_error |-> NoError,
     consecutive_failures |-> 0, consecutive_successes |-> 0]

IdleChecker ==
    [pc |-> "idle", healthy |-> TRUE, before |-> TRUE, decision |-> TRUE,
     unhealthy_threshold |-> 0, healthy_threshold |-> 0]

InitHealth ==
    /\ health_status = HealthStatus_default
    /\ upstream_healthy = TRUE
    /\ checker = [h \in Checkers |-> IdleChecker]
    /\ hlast = [valid |-> FALSE, healthy |-> TRUE, before |-> TRUE,
                unhealthy_threshold |-> 0, healthy_threshold |-> 0]

\* .unwrap_or(3)
DefaultUnhealthyThreshold == 3

\* .unwrap_or(1)
DefaultHealthyThreshold == 1

\* a guard dropped once status.healthy is written, before the atomic store
HoldsLockUntilDecided(pcv) == pcv \in {"counted", "thresholds"}

\* the positions at which a caller holds the write guard on health_status
holds_lock(pcv) == pcv \in {"counted", "thresholds", "decided"}

\* the thresholds compared with > instead of >=
DecideStrict(status, unhealthy_threshold, healthy_threshold) ==
    IF status.consecutive_failures > unhealthy_threshold THEN "unhealthy"
    ELSE IF status.consecutive_successes > healthy_threshold THEN "healthy"
    ELSE "keep"

\* the if / else if on the two thresholds
decide_healthy(status, unhealthy_threshold, healthy_threshold) ==
    IF status.consecutive_failures >= unhealthy_threshold THEN "unhealthy"
    ELSE IF status.consecutive_successes >= healthy_threshold THEN "healthy"
    ELSE "keep"

\* a call that increments its own counter and leaves the other one alone
HealthBeginNoReset(h, healthy, error) ==
    /\ checker[h].pc = "idle"
    /\ \A g \in Checkers : ~holds_lock(checker[g].pc)
    /\ IF healthy THEN health_status.consecutive_successes < MaxStreak
       ELSE health_status.consecutive_failures < MaxStreak
    /\ health_status' =
           IF healthy
           THEN [health_status EXCEPT
                    !.consecutive_successes = @ + 1,
                    !.last_error = NoError]
           ELSE [health_status EXCEPT
                    !.consecutive_failures = @ + 1,
                    !.last_error = error]
    /\ checker' = [checker EXCEPT ![h] =
                      [IdleChecker EXCEPT !.pc = "counted",
                                          !.healthy = healthy,
                                          !.before = health_status.healthy]]
    /\ UNCHANGED <<upstream_healthy, hlast, ivars, app_config, svars, lvars>>

\* health_status.write().await, then the counters and last_error
health_begin(h, healthy, error) ==
    /\ checker[h].pc = "idle"
    /\ \A g \in Checkers : ~holds_lock(checker[g].pc)
    /\ IF healthy THEN health_status.consecutive_successes < MaxStreak
       ELSE health_status.consecutive_failures < MaxStreak
    /\ health_status' =
           IF healthy
           THEN [health_status EXCEPT
                    !.consecutive_successes = @ + 1,
                    !.consecutive_failures = 0,
                    !.last_error = NoError]
           ELSE [health_status EXCEPT
                    !.consecutive_failures = @ + 1,
                    !.consecutive_successes = 0,
                    !.last_error = error]
    /\ checker' = [checker EXCEPT ![h] =
                      [IdleChecker EXCEPT !.pc = "counted",
                                          !.healthy = healthy,
                                          !.before = health_status.healthy]]
    /\ UNCHANGED <<upstream_healthy, hlast, ivars, app_config, svars, lvars>>

\* config.read().await, the two thresholds, drop(config)
health_thresholds(h) ==
    /\ checker[h].pc = "counted"
    /\ LET hc == app_config.health_check
       IN  checker' = [checker EXCEPT
               ![h].pc = "thresholds",
               ![h].unhealthy_threshold =
                   IF hc.present THEN hc.unhealthy_threshold
                   ELSE DefaultUnhealthyThreshold,
               ![h].healthy_threshold =
                   IF hc.present THEN hc.healthy_threshold
                   ELSE DefaultHealthyThreshold]
    /\ UNCHANGED <<health_status, upstream_healthy, hlast, ivars, app_config,
                   svars, lvars>>

ReturnedCall(h) ==
    [valid |-> TRUE, healthy |-> checker[h].healthy,
     before |-> checker[h].before,
     unhealthy_threshold |-> checker[h].unhealthy_threshold,
     healthy_threshold |-> checker[h].healthy_threshold]

\* status.healthy = false / true, or neither branch and the function returns
health_decide(h) ==
    /\ checker[h].pc = "thresholds"
    /\ LET verdict == decide_healthy(health_status,
                                     checker[h].unhealthy_threshold,
                                     checker[h].healthy_threshold)
       IN  IF verdict = "keep"
           THEN /\ checker' = [checker EXCEPT ![h] = IdleChecker]
                /\ hlast' = ReturnedCall(h)
                /\ UNCHANGED health_status
           ELSE /\ health_status' = [health_status EXCEPT
                                        !.healthy = (verdict = "healthy")]
                /\ checker' = [checker EXCEPT
                                  ![h].pc = "decided",
                                  ![h].decision = (verdict = "healthy")]
                /\ UNCHANGED hlast
    /\ UNCHANGED <<upstream_healthy, ivars, app_config, svars, lvars>>

\* self.upstream_healthy.store(..), then the function returns
health_store(h) ==
    /\ checker[h].pc = "decided"
    /\ upstream_healthy' = checker[h].decision
    /\ checker' = [checker EXCEPT ![h] = IdleChecker]
    /\ hlast' = ReturnedCall(h)
    /\ UNCHANGED <<health_status, ivars, app_config, svars, lvars>>
(***************************************************************************)
(* AppState::add_log.  The write guard on logs is taken first and held to  *)
(* the end of the function; under it the length test with pop_back and the *)
(* push_front are steps.  An entry is identified by the number of the call *)
(* that pushed it, so that the order and the evicted entry can be told.    *)
(***************************************************************************)
Loggers == {"log1", "log2"}

\* if logs.len() >= 100
LogCapacity == 100

LogEntry(id) == [id |-> id]

InitLogs ==
    /\ logs = <<>>
    /\ logger = [h \in Loggers |-> [pc |-> "idle", before |-> <<>>]]
    /\ llast = [valid |-> FALSE, before |-> <<>>, entry |-> LogEntry(0),
                added |-> 0]

\* the positions at which a caller holds the write guard on logs
log_holds_lock(pcv) == pcv \in {"locked", "checked"}

pop_back(q) == SubSeq(q, 1, Len(q) - 1)

push_front(q, entry) == <<entry>> \o q

\* self.logs.write().await
add_log_begin(h) ==
    /\ logger[h].pc = "idle"
    /\ \A g \in Loggers : ~log_holds_lock(logger[g].pc)
    /\ llast.added + Cardinality({g \in Loggers : logger[g].pc # "idle"})
           < MaxAdds
    /\ logger' = [logger EXCEPT ![h] = [pc |-> "locked", before |-> logs]]
    /\ UNCHANGED <<logs, llast, ivars, app_config, svars, hvars>>

\* the length test that never pops
AddLogCheckNoPop(h) ==
    /\ logger[h].pc = "locked"
    /\ logger' = [logger EXCEPT ![h].pc = "checked"]
    /\ UNCHANGED <<logs, llast, ivars, app_config, svars, hvars>>

\* if logs.len() >= 100 { logs.pop_back(); }
add_log_check(h) ==
    /\ logger[h].pc = "locked"
    /\ logs' = IF Len(logs) >= LogCapacity THEN pop_back(logs) ELSE logs
    /\ logger' = [logger EXCEPT ![h].pc = "checked"]
    /\ UNCHANGED <<llast, ivars, app_config, svars, hvars>>

\* logs.push_front(entry), then the guard is dropped
add_log_push(h) ==
    /\ logger[h].pc = "checked"
    /\ LET entry == LogEntry(llast.added + 1)
       IN  /\ logs' = push_front(logs, entry)
           /\ llast' = [valid |-> TRUE, before |-> logger[h].before,
                        entry |-> entry, added |-> llast.added + 1]
    /\ logger' = [logger EXCEPT ![h] = [pc |-> "idle", before |-> <<>>]]
    /\ UNCHANGED <<ivars, app_config, svars, hvars>>


(***************************************************************************)
(* Anonymizer::new(config) for each connection and AppState::new, then any *)
(* sequence of calls.  conn1 is built with any configuration of Configs,   *)
(* which is also the configuration AppState starts with; conn2 is built    *)
(* with RulesScoped, whose first rule binds email_col to "email", the      *)
(* strategy the heuristic also chooses.                                    *)
(*   Spec        RowDescriptions and DataRows of the full catalogue on     *)
(*               connection conn1                                          *)
(*   SpecPair    both connections, with the narrower catalogue of rows     *)
(*   SpecReload  conn1 with the narrower catalogue, interleaved with       *)
(*               reload_config                                             *)
(*   SpecStream  the accept loop and one client, with well-formed and      *)
(*               malformed frames in both directions                       *)
(*   SpecAccept  the accept loop and two clients, with one frame per       *)
(*               direction                                                 *)
(*   SpecHealth  two concurrent callers of update_health_status and        *)
(*               reload_config changing the thresholds                     *)
(*   SpecLogs    two concurrent callers of add_log                         *)
(***************************************************************************)
Init ==
    /\ config \in {c \in [Anonymizers -> Configs] : c["conn2"] = RulesScoped}
    /\ target_cols = [a \in Anonymizers |-> <<>>]
    /\ desc = [a \in Anonymizers |-> [bound |-> FALSE, fields |-> <<>>]]
    /\ last = [op |-> "new", self |-> "conn1", before |-> <<>>,
               fields |-> <<>>, values |-> <<>>, out |-> <<>>,
               strategy |-> <<>>, result |-> "Ok"]
    /\ reloaded = [a \in Anonymizers |-> FALSE]
    /\ app_config = AppConfig(config["conn1"], NoHealthCheck)
    /\ InitSupervisor
    /\ InitHealth
    /\ InitLogs

Next ==
    \/ \E msg \in RowDescriptions : on_row_description("conn1", msg)
    \/ \E msg \in DataRows : on_data_row("conn1", msg)

Spec == Init /\ [][Next]_vars

NextPair ==
    \/ \E self \in Anonymizers : \E msg \in RowDescriptions :
           on_row_description(self, msg)
    \/ \E self \in Anonymizers : \E msg \in PairRows :
           on_data_row(self, msg)

SpecPair == Init /\ [][NextPair]_vars

NextReload ==
    \/ \E msg \in RowDescriptions : on_row_description("conn1", msg)
    \/ \E msg \in PairRows : on_data_row("conn1", msg)
    \/ \E load \in RuleLoads : reload_config(load)

SpecReload == Init /\ [][NextReload]_vars

\* main.rs builds no Anonymizer: the specifications of the accept loop and
\* of the health record start from the one initial state without rules
InitProxy == Init /\ config["conn1"] = RulesEmpty

NextStream ==
    \/ accept("client1")
    \/ accept_error
    \/ connect_ok("client1")
    \/ connect_err("client1")
    \/ \E d \in Dirs : \E frame \in StreamFrames(d) :
           copy_read("client1", d, frame)
    \/ \E d \in Dirs : copy_write("client1", d)
    \/ \E d \in Dirs : \E outcome \in {"eof", "error"} :
           copy_finish("client1", d, outcome)

NextHealth ==
    \/ \E h \in Checkers : \E healthy \in BOOLEAN :
       \E error \in {NoError, "connection refused"} :
           health_begin(h, healthy, error)
    \/ \E h \in Checkers : health_thresholds(h)
    \/ \E h \in Checkers : health_decide(h)
    \/ \E h \in Checkers : health_store(h)
    \/ \E load \in HealthLoads : reload_config(load)

SpecHealth == InitProxy /\ [][NextHealth]_vars

NextLogs ==
    \/ \E h \in Loggers : add_log_begin(h)
    \/ \E h \in Loggers : add_log_check(h)
    \/ \E h \in Loggers : add_log_push(h)

SpecLogs == InitProxy /\ [][NextLogs]_vars

SpecStream == InitProxy /\ [][NextStream]_vars

NextAccept ==
    \/ \E c \in Conns : accept(c)
    \/ accept_error
    \/ \E c \in Conns : connect_ok(c)
    \/ \E c \in Conns : connect_err(c)
    \/ \E c \in Conns : \E d \in Dirs : \E frame \in AcceptFrames(d) :
           copy_read(c, d, frame)
    \/ \E c \in Conns : \E d \in Dirs : copy_write(c, d)
    \/ \E c \in Conns : \E d \in Dirs : \E outcome \in {"eof", "error"} :
           copy_finish(c, d, outcome)

SpecAccept == InitProxy /\ [][NextAccept]_vars

(***************************************************************************)
(* Properties.  In a state whose last call is on_data_row, last.values is  *)
(* the row passed in, last.out the row returned, last.strategy the         *)
(* strategy chosen for each cell and target_cols[last.self] the strategy   *)
(* table the call read (on_data_row leaves it unchanged).                  *)
(***************************************************************************)

\* C1: a non-NULL cell at an index the strategy table binds to strategy s
\* is replaced by the value generated for s from the cell's bytes, whatever
\* the scanner would say about those bytes.
C1_RulePrecedence ==
    last.op = "on_data_row" =>
        LET tc == target_cols[last.self]
        IN  \A p \in 1..Len(tc) :
                LET k == tc[p][1] + 1
                IN  (k <= Len(last.values) /\ last.values[k] # None) =>
                        /\ last.strategy[k] = tc[p][2]
                        /\ last.out[k] = fake_val(tc[p][2], seed_of(last.values[k]))

\* the email-shaped cell of the test, bound to "address", came out as a city
C1_Witness ==
    /\ last.op = "on_data_row"
    /\ target_cols[last.self] = << <<0, "address">> >>
    /\ Len(last.values) >= 1
    /\ last.values[1] = BytesEmail
    /\ scan(from_utf8(last.values[1])) = "Email"
    /\ last.out[1] = fake_with_rng(CityName, seed_of(BytesEmail))

\* C2: a cell that is None in the row passed to on_data_row is None in the
\* row returned, also at an index the strategy table binds.
C2_NullPreserved ==
    last.op = "on_data_row" =>
        /\ Len(last.out) = Len(last.values)
        /\ \A k \in 1..Len(last.values) :
               last.values[k] = None => last.out[k] = None

\* a None cell at a bound index came out None
C2_Witness ==
    /\ last.op = "on_data_row"
    /\ \E p \in 1..Len(target_cols[last.self]) :
           LET k == target_cols[last.self][p][1] + 1
           IN  /\ k <= Len(last.values)
               /\ last.values[k] = None
               /\ last.out[k] = None

\* C3: on_data_row returns Ok, and a non-NULL cell at an index the strategy
\* table does not bind comes out byte-identical when its bytes are not UTF-8
\* or the scanner puts them in no category.
C3_UnboundNonPiiUnchanged ==
    last.op = "on_data_row" =>
        /\ last.result = "Ok"
        /\ \A k \in 1..Len(last.values) :
               LET v == last.values[k]
                   tc == target_cols[last.self]
                   unbound == \A p \in 1..Len(tc) : tc[p][1] # k - 1
                   nonPii == IF from_utf8(v) = None THEN TRUE
                             ELSE scan(from_utf8(v)) = NoPii
               IN  (v # None /\ unbound /\ nonPii) => last.out[k] = v

\* a row with an unbound cell that is not UTF-8 and an unbound cell of plain
\* text, both returned as they came
C3_Witness ==
    /\ last.op = "on_data_row"
    /\ last.result = "Ok"
    /\ target_cols[last.self] = <<>>
    /\ last.values = <<BytesNotUtf8, BytesPlain>>
    /\ from_utf8(BytesNotUtf8) = None
    /\ last.out = last.values

\* C4: for a non-NULL cell at an unbound index the heuristic chooses "email"
\* exactly when the scanner says Email, "credit_card" exactly when it says
\* CreditCard, and no strategy otherwise; the cell is rewritten with the
\* strategy chosen.
C4_HeuristicFallback ==
    last.op = "on_data_row" =>
        \A k \in 1..Len(last.values) :
            LET v == last.values[k]
                tc == target_cols[last.self]
                unbound == \A p \in 1..Len(tc) : tc[p][1] # k - 1
                cat == IF from_utf8(v) = None THEN NoPii ELSE scan(from_utf8(v))
            IN  (v # None /\ unbound) =>
                    /\ last.strategy[k] \in {"email", "credit_card", NoStrategy}
                    /\ last.strategy[k] = "email" <=> cat = "Email"
                    /\ last.strategy[k] = "credit_card" <=> cat = "CreditCard"
                    /\ last.out[k] = IF last.strategy[k] = NoStrategy THEN v
                                     ELSE fake_val(last.strategy[k], seed_of(v))

\* the row of test_heuristic_detection plus a card number: with no rules
\* the address came out as a generated email and the card as a generated card
C4_Witness ==
    /\ last.op = "on_data_row"
    /\ target_cols[last.self] = <<>>
    /\ last.values = <<BytesEmail, BytesCard>>
    /\ last.strategy = <<"email", "credit_card">>
    /\ last.out = << fake_with_rng(SafeEmail, seed_of(BytesEmail)),
                     fake_with_rng(CreditCardNumber, seed_of(BytesCard)) >>

\* C5: the bytes written for a masked cell depend on the cell's bytes and
\* the strategy only: any two cells with equal bytes and equal strategy, in
\* one row or in two rows processed one after the other by the same or by
\* different connections, at any indexes, under a rule or under the
\* heuristic, come out equal.
C5_Determinism ==
    [][ last'.op = "on_data_row" =>
          /\ \A j \in 1..Len(last'.values) : \A k \in 1..Len(last'.values) :
                 (/\ last'.values[j] = last'.values[k]
                  /\ last'.strategy[j] = last'.strategy[k])
                 => last'.out[j] = last'.out[k]
          /\ last.op = "on_data_row" =>
                 \A j \in 1..Len(last.values) : \A k \in 1..Len(last'.values) :
                     (/\ last.values[j] = last'.values[k]
                      /\ last.strategy[j] = last'.strategy[k])
                     => last.out[j] = last'.out[k]
      ]_vars

\* one row holds the same address twice, masked as email once by the rule
\* bound to index 0 and once by the heuristic at index 1, with equal results
C5_Witness ==
    /\ last.op = "on_data_row"
    /\ target_cols[last.self] = << <<0, "email">> >>
    /\ last.values = <<BytesEmail, BytesEmail>>
    /\ last.strategy = <<"email", "email">>
    /\ last.out[1] = last.out[2]
    /\ last.out[1] # BytesEmail

C8_TableRebuilt ==
    \A a \in Anonymizers :
        LET tc == target_cols[a]
            d == desc[a].fields
            rules == config[a]
        IN  IF ~desc[a].bound THEN tc = <<>>
            ELSE /\ \A p \in 1..Len(tc) :
                        /\ tc[p][1] \in 0..(Len(d) - 1)
                        /\ \E r \in 1..Len(rules) :
                               /\ rules[r].column = d[tc[p][1] + 1].name
                               /\ rules[r].strategy = tc[p][2]
                 /\ \A i \in 0..(Len(d) - 1) :
                        (\E p \in 1..Len(tc) : tc[p][1] = i)
                            <=> (\E r \in 1..Len(rules) :
                                     rules[r].column = d[i + 1].name)

\* a RowDescription whose field 0 matches no rule arrived on a connection
\* whose table bound index 0: the index is unbound afterwards
C8_Witness ==
    /\ last.op = "on_row_description"
    /\ Len(last.fields) >= 1
    /\ \E p \in 1..Len(last.before) : last.before[p][1] = 0
    /\ \A r \in 1..Len(config[last.self]) :
           config[last.self][r].column # last.fields[1].name
    /\ \A p \in 1..Len(target_cols[last.self]) :
           target_cols[last.self][p][1] # 0

\* C9: the strategy table holds each column index at most once, and the
\* strategy recorded for a field is that of the first rule, in configuration
\* order, whose column is the field's name; later rules for that column
\* leave no entry.
C9_FirstMatchWins ==
    \A a \in Anonymizers :
        LET tc == target_cols[a]
            d == desc[a].fields
            rules == config[a]
        IN  /\ \A p \in 1..Len(tc) : \A q \in 1..Len(tc) :
                   tc[p][1] = tc[q][1] => p = q
            /\ \A p \in 1..Len(tc) :
                   \E r \in 1..Len(rules) :
                       /\ rules[r].column = d[tc[p][1] + 1].name
                       /\ rules[r].strategy = tc[p][2]
                       /\ \A r2 \in 1..(r - 1) :
                              rules[r2].column # d[tc[p][1] + 1].name

\* field "id" under two rules for "id", "phone" then "redact": bound once,
\* to "phone"
C9_Witness ==
    /\ last.op = "on_row_description"
    /\ config[last.self] = RulesTwice
    /\ last.fields = << FieldDescription("id") >>
    /\ target_cols[last.self] = << <<0, "phone">> >>

\* C10 as stated: the rule recorded for a field is the first rule without a
\* table whose column is the field's name; a field with no such rule is
\* unbound.
C10_Original ==
    \A a \in Anonymizers :
        LET tc == target_cols[a]
            d == desc[a].fields
            rules == config[a]
            global(r, i) == /\ rules[r].column = d[i + 1].name
                            /\ rules[r].table = NoTable
        IN  /\ \A p \in 1..Len(tc) :
                   \E r \in 1..Len(rules) :
                       /\ global(r, tc[p][1])
                       /\ rules[r].strategy = tc[p][2]
                       /\ \A r2 \in 1..(r - 1) : ~global(r2, tc[p][1])
            /\ \A i \in 0..(Len(d) - 1) :
                   (\E p \in 1..Len(tc) : tc[p][1] = i)
                       <=> (\E r \in 1..Len(rules) : global(r, i))

\* C10 amended: the rule recorded for a field is the first rule whose
\* column is the field's name, whether or not that rule names a table; a
\* field is unbound only when no rule at all has its name.
C10_TableIgnored ==
    \A a \in Anonymizers :
        LET tc == target_cols[a]
            d == desc[a].fields
            rules == config[a]
            named(r, i) == rules[r].column = d[i + 1].name
            first(i) == CHOOSE r \in 1..Len(rules) :
                            named(r, i) /\ \A r2 \in 1..(r - 1) : ~named(r2, i)
        IN  \A i \in 0..(Len(d) - 1) :
                IF \E r \in 1..Len(rules) : named(r, i)
                THEN \E p \in 1..Len(tc) :
                         tc[p] = <<i, rules[first(i)].strategy>>
                ELSE \A p \in 1..Len(tc) : tc[p][1] # i

\* field "email_col" under the rule ("users", email_col, email) followed by
\* the global rule (email_col, credit_card): bound to "email"
C10_Witness ==
    /\ last.op = "on_row_description"
    /\ config[last.self] = RulesScoped
    /\ config[last.self][1].table # NoTable
    /\ last.fields = << FieldDescription("email_col") >>
    /\ target_cols[last.self] = << <<0, "email">> >>

\* C11: a non-NULL cell bound to a strategy name other than email, phone,
\* address and credit_card ("mask" included) comes out as the six bytes
\* MASKED, and on_data_row returns Ok.
C11_UnknownStrategyMasked ==
    last.op = "on_data_row" =>
        /\ last.result = "Ok"
        /\ LET tc == target_cols[last.self]
           IN  \A p \in 1..Len(tc) :
                   LET k == tc[p][1] + 1
                   IN  (/\ k <= Len(last.values)
                        /\ last.values[k] # None
                        /\ tc[p][2] \notin {"email", "phone", "address",
                                            "credit_card"})
                       => last.out[k] = BytesMasked

\* an email-shaped cell bound to the unknown strategy "hash" came out as
\* the bytes 4D 41 53 4B 45 44
C11_Witness ==
    /\ last.op = "on_data_row"
    /\ last.result = "Ok"
    /\ \E p \in 1..Len(target_cols[last.self]) :
           LET k == target_cols[last.self][p][1] + 1
           IN  /\ target_cols[last.self][p][2] = "hash"
               /\ k <= Len(last.values)
               /\ last.values[k] = BytesEmail
               /\ last.out[k] = <<77, 65, 83, 75, 69, 68>>

\* C12 as stated: every DataRow written to the client socket went through
\* on_data_row, so none of its cells still holds bytes that the scanner
\* classifies as PII.
C12_Original ==
    \A c \in Conns : \A k \in 1..Len(conn[c].wr["u2c"]) :
        LET frame == conn[c].wr["u2c"][k]
        IN  frame.tag = "D" =>
                \A j \in 1..Len(frame.values) :
                    (frame.values[j] # None /\ frame.values[j] \in CellBytes)
                        => heuristic_strategy(frame.values[j]) = NoStrategy

\* C13: on every connection and at every moment the frames written to the
\* upstream socket are a prefix of the frames read from the client socket:
\* same frames, same order, nothing added.
C13_ClientToServerVerbatim ==
    \A c \in Conns :
        LET rd == conn[c].rd["c2u"]
            wr == conn[c].wr["c2u"]
        IN  /\ Len(wr) <= Len(rd)
            /\ \A k \in 1..Len(wr) : wr[k] = rd[k]
            /\ conn[c].state = "running" =>
                   rd = wr \o conn[c].buf["c2u"]

\* two different frames were read from the client and both written to the
\* upstream in the order read
C13_Witness ==
    \E c \in Conns :
        /\ Len(conn[c].rd["c2u"]) = 2
        /\ conn[c].rd["c2u"][1] # conn[c].rd["c2u"][2]
        /\ conn[c].wr["c2u"] = conn[c].rd["c2u"]

\* C14: once one of the two copies has finished, by end-of-stream or by an
\* error, process_connection has returned and nothing more is read from or
\* written to either socket of that connection, whatever the other copy
\* still held in its buffer.
C14_BothDirectionsEnd ==
    [][ \A c \in Conns :
            /\ (conn[c].state = "running" /\ conn'[c].first # "none")
                   => conn'[c].state = "returned"
            /\ conn[c].state = "returned" => conn'[c] = conn[c]
      ]_vars

\* the client-to-server copy finished while the other copy held a frame it
\* had read and not written: the connection is over, the frame unwritten
C14_Witness ==
    \E c \in Conns :
        /\ conn[c].state = "returned"
        /\ conn[c].first = "c2u"
        /\ conn[c].buf["u2c"] # <<>>
        /\ Len(conn[c].wr["u2c"]) < Len(conn[c].rd["u2c"])

\* C15: a step in which one connection ends, by a failed upstream connect
\* or by a copy that finished or failed, leaves the accept loop where it
\* was and every other connection as it was.
C15_FailureIsolated ==
    [][ \A c \in Conns :
            (/\ conn[c].state \in {"spawned", "running"}
             /\ conn'[c].state \in {"failed", "returned"})
            => /\ main_pc' = main_pc
               /\ main_pc' = "accepting"
               /\ \A other \in Conns \ {c} : conn'[other] = conn[other]
      ]_vars

\* one client's upstream connect failed; the loop is still accepting and
\* the other client's connection is running with a frame forwarded
C15_Witness ==
    /\ main_pc = "accepting"
    /\ conn["client1"].state = "failed"
    /\ conn["client2"].state = "running"
    /\ Len(conn["client2"].wr["c2u"]) >= 1

\* C16 as stated: active_connections equals the number of connections that
\* are being handled.
C16_Original ==
    active_connections =
        Cardinality({c \in Conns : conn[c].state \in {"spawned", "running"}})

\* C18 as stated: no frame whose declared length is below 4 or above
\* MAX_FRAME is written to the peer socket, in either direction.
C18_Original ==
    \A c \in Conns : \A d \in Dirs : \A k \in 1..Len(conn[c].wr[d]) :
        /\ conn[c].wr[d][k].length >= 4
        /\ conn[c].wr[d][k].length <= MAX_FRAME

\* C17: a DataRow processed after its RowDescription was resolved is masked
\* by the strategy table resolved from the configuration the Anonymizer
\* held at that RowDescription, whether or not reload_config has replaced
\* AppState's configuration in between and whatever the new rules are.
C17_ReloadLeavesInFlight ==
    (last.op = "on_data_row" /\ desc[last.self].bound) =>
        LET old == ResolveFields(<<>>, desc[last.self].fields,
                                 config[last.self], 0)
        IN  /\ target_cols[last.self] = old
            /\ \A k \in 1..Len(last.values) :
                   LET v == last.values[k]
                       bound == \E p \in 1..Len(old) : old[p][1] = k - 1
                   IN  (v # None /\ bound) =>
                           \E p \in 1..Len(old) :
                               /\ old[p][1] = k - 1
                               /\ last.strategy[k] = old[p][2]
                               /\ last.out[k] = fake_val(old[p][2], seed_of(v))

\* the configuration was replaced after the RowDescription by one whose
\* rules would bind its fields differently; the plain-text cell at index 0
\* of the next DataRow was still masked by the rule of the old snapshot
C17_Witness ==
    /\ last.op = "on_data_row"
    /\ desc[last.self].bound
    /\ reloaded[last.self]
    /\ app_config.rules # config[last.self]
    /\ ResolveFields(<<>>, desc[last.self].fields, app_config.rules, 0)
           # target_cols[last.self]
    /\ target_cols[last.self] # <<>>
    /\ target_cols[last.self][1][1] = 0
    /\ Len(last.values) >= 1
    /\ last.values[1] = BytesPlain
    /\ last.out[1] = fake_val(target_cols[last.self][1][2], seed_of(BytesPlain))

\* C19: when a call of update_health_status that read thresholds >= 1 has
\* returned and no other call has begun, the upstream is unhealthy if
\* consecutive_failures >= unhealthy_threshold, healthy if the check
\* succeeded and consecutive_successes >= healthy_threshold, and otherwise
\* as it was before the call; so a call that found it healthy leaves it
\* unhealthy only with unhealthy_threshold consecutive failures or more.
C19_HealthHysteresis ==
    (/\ hlast.valid
     /\ \A h \in Checkers : checker[h].pc = "idle"
     /\ hlast.unhealthy_threshold >= 1
     /\ hlast.healthy_threshold >= 1)
    => /\ health_status.healthy =
              IF health_status.consecutive_failures >= hlast.unhealthy_threshold
              THEN FALSE
              ELSE IF /\ hlast.healthy
                      /\ health_status.consecutive_successes
                             >= hlast.healthy_threshold
              THEN TRUE
              ELSE hlast.before
       /\ (hlast.before /\ ~health_status.healthy) =>
              /\ ~hlast.healthy
              /\ health_status.consecutive_failures >= hlast.unhealthy_threshold

\* with the default thresholds 3 and 1: the third consecutive failure of an
\* upstream that was healthy has just marked it unhealthy
C19_Witness ==
    /\ hlast.valid
    /\ \A h \in Checkers : checker[h].pc = "idle"
    /\ hlast.unhealthy_threshold = 3
    /\ hlast.healthy_threshold = 1
    /\ hlast.before
    /\ ~hlast.healthy
    /\ health_status.consecutive_failures = 3
    /\ ~health_status.healthy

\* C20: whenever no call of update_health_status is in progress, the atomic
\* flag upstream_healthy equals health_status.healthy.
C20_FlagMatchesStatus ==
    (\A h \in Checkers : checker[h].pc = "idle")
        => upstream_healthy = health_status.healthy

\* no call in progress after one that marked the upstream unhealthy: flag
\* and record are both false
C20_Witness ==
    /\ \A h \in Checkers : checker[h].pc = "idle"
    /\ hlast.valid
    /\ ~health_status.healthy
    /\ ~upstream_healthy

\* C23: at most one of consecutive_failures and consecutive_successes is
\* non-zero in every state; the step of update_health_status that counts a
\* successful check adds exactly 1 to consecutive_successes, sets
\* consecutive_failures to 0 and clears last_error, the step that counts a
\* failed check adds exactly 1 to consecutive_failures and sets
\* consecutive_successes to 0, and no other step changes either counter.
C23_CountersExclusive ==
    /\ [](health_status.consecutive_failures = 0
          \/ health_status.consecutive_successes = 0)
    /\ [][LET s == health_status
              t == health_status'
              counting == {h \in Checkers : /\ checker[h].pc = "idle"
                                            /\ checker'[h].pc = "counted"}
          IN  /\ \A h \in counting :
                    IF checker'[h].healthy
                    THEN /\ t.consecutive_successes = s.consecutive_successes + 1
                         /\ t.consecutive_failures = 0
                         /\ t.last_error = NoError
                    ELSE /\ t.consecutive_failures = s.consecutive_failures + 1
                         /\ t.consecutive_successes = 0
              /\ counting = {} =>
                    /\ t.consecutive_failures = s.consecutive_failures
                    /\ t.consecutive_successes = s.consecutive_successes]_vars

\* a successful check has just been counted after a run of failures that had
\* marked the upstream unhealthy and left an error: one success, no failure,
\* no error
C23_Witness ==
    /\ \E h \in Checkers : /\ checker[h].pc = "counted"
                           /\ checker[h].healthy
                           /\ ~checker[h].before
    /\ hlast.valid
    /\ ~hlast.healthy
    /\ health_status.consecutive_successes = 1
    /\ health_status.consecutive_failures = 0
    /\ health_status.last_error = NoError

\* C22: a reload_config whose load failed returns Err and leaves the
\* shared configuration as it was; one whose load succeeded returns Ok with
\* the number of rules of the loaded configuration and leaves the shared
\* configuration equal to the loaded one in every section; and a reader
\* that read the thresholds under the read guard holds the two thresholds
\* of one configuration, the initial one or a loaded one.
C22_ReloadAllOrNothing ==
    /\ [][last'.op = "reload_config" =>
             IF last'.load.ok
             THEN /\ last'.result = "Ok"
                  /\ app_config' = last'.load.config
                  /\ last'.rules_count = Len(app_config'.rules)
             ELSE /\ last'.result = "Err"
                  /\ app_config' = app_config]_vars
    /\ [](\A h \in Checkers :
             checker[h].pc \in {"thresholds", "decided"} =>
                 \E l \in HealthLoads :
                     /\ l.ok
                     /\ checker[h].unhealthy_threshold =
                            IF l.config.health_check.present
                            THEN l.config.health_check.unhealthy_threshold
                            ELSE DefaultUnhealthyThreshold
                     /\ checker[h].healthy_threshold =
                            IF l.config.health_check.present
                            THEN l.config.health_check.healthy_threshold
                            ELSE DefaultHealthyThreshold)

\* a load has failed after a successful reload had replaced rules and
\* health_check together: the shared configuration is still the loaded one,
\* and a reader has read its two thresholds
C22_Witness ==
    /\ last.op = "reload_config"
    /\ ~last.load.ok
    /\ last.result = "Err"
    /\ app_config = AppConfig(RulesScoped, HealthCheck(2, 2))
    /\ \E h \in Checkers : /\ checker[h].pc = "thresholds"
                           /\ checker[h].unhealthy_threshold = 2
                           /\ checker[h].healthy_threshold = 2

\* C21: the log buffer never holds more than 100 entries; whenever no
\* add_log call is in progress it holds the min(n, 100) entries added last,
\* n being the number of calls that returned, newest first; and the call
\* that returned last left its entry in front of the buffer it found, less
\* that buffer's last (oldest) entry and no other when it held 100 entries.
C21_LogsBounded ==
    /\ Len(logs) <= 100
    /\ (\A h \in Loggers : logger[h].pc = "idle") =>
           /\ Len(logs) = IF llast.added <= 100 THEN llast.added ELSE 100
           /\ \A k \in 1..Len(logs) : logs[k] = LogEntry(llast.added - k + 1)
           /\ llast.valid =>
                  logs = <<llast.entry>> \o
                         (IF Len(llast.before) >= 100
                          THEN SubSeq(llast.before, 1, Len(llast.before) - 1)
                          ELSE llast.before)

\* an add_log that found the buffer full has returned: 100 entries, the new
\* one in front, and the oldest of the buffer it found is gone while the
\* second oldest is now last
C21_Witness ==
    /\ \A h \in Loggers : logger[h].pc = "idle"
    /\ llast.valid
    /\ Len(llast.before) = 100
    /\ llast.added > 101
    /\ Len(logs) = 100
    /\ logs[1] = llast.entry
    /\ logs[100] = llast.before[99]
    /\ \A k \in 1..100 : logs[k] # llast.before[100]

====
